---- MODULE Spec2Model ----
(***************************************************************************)
(* Model of the system monitor's sampling core.                            *)
(*                                                                         *)
(*   SpecChart      TimeSeriesChart.append          (src/play.py)          *)
(*   SpecCollector  ProcessCollector (spec.md 4.5 and                      *)
(*                  tests/system_monitor/core/test_process_collector.py);  *)
(*                  SpecCollectorFair adds that a started worker finishes  *)
(*   Spec           SystemMonitor: on_timer, toggle_pause, on_unit_changed *)
(*                  (src/play.py, src/system_monitor/app.py)               *)
(*   SpecStall      SystemMonitor left running, with ticks that come late  *)
(*   SpecGpu        GPUProvider's nvidia-smi polling thread and the main   *)
(*                  loop's GPU refresh (src/play.py)                       *)
(*   SpecProcs      the process list: search filter and core buckets       *)
(*                  (src/system_monitor/core/process_manager.py)           *)
(*   SpecMetrics    MetricsCollector.collect_all                           *)
(*                  (tests/system_monitor/core/test_metrics_collector.py)  *)
(*   SpecCache      SystemInfoCache and cached_static_property             *)
(*                  (tests/system_monitor/utils/test_cache.py)             *)
(*   SpecWorker     ProcessCollector._collect_processes, the worker        *)
(*                  (tests/system_monitor/core/test_process_collector.py)  *)
(*                                                                         *)
(* Floating point quantities are carried in fixed point: display-unit      *)
(* values (MB/s, MiB/s and the reference maxima) in millionths of a unit,  *)
(* times in milliseconds.                                                  *)
(***************************************************************************)
EXTENDS Integers, Sequences, FiniteSets, TLC

\* ------------------------------------------------------------------------
\* Bounds of the model
\* ------------------------------------------------------------------------
MaxPoints == 3
MaxAppends == 5
MaxCalls == 3
MaxTicks == 3
MaxClockSteps == 1
MaxPolls == 2
MaxFrames == 2
MaxProcs == 2
MaxCores == 2

\* ------------------------------------------------------------------------
\* Arithmetic helpers
\* ------------------------------------------------------------------------
Max(a, b) == IF a >= b THEN a ELSE b

Min(a, b) == IF a <= b THEN a ELSE b

RECURSIVE GCD(_, _)
GCD(a, b) == IF b = 0 THEN a ELSE GCD(b, a % b)

\* floor(a * b / c) for c > 0, b >= 0, without forming the product a * b.
MulDiv(a, b, c) == (a \div c) * b + (((a % c) * b) \div c)

\* one display unit in fixed point
FP == 1000000

\* floor(a * b / FP) for fixed-point a, b >= 0, without forming a * b.
MulFP(a, b) ==
    LET a1 == a \div 1000
        a0 == a % 1000
        b1 == b \div 1000
        b0 == b % 1000
    IN  a1 * b1 + ((a1 * b0 + a0 * b1 + ((a0 * b0) \div 1000)) \div 1000)

VARIABLES
    \* TimeSeriesChart
    max_points, auto_scale, chart_x, buffers, axis_x, axis_y, appended,
    \* ProcessCollector
    collecting, shutdown, executor_shutdown, result_queue, running, submitted,
    next_result, last_get, discarded, calls, coll_op,
    \* SystemMonitor
    elapsed, since_tick, gap_at_tick, prev_tick_paused, paused, unit_mode, bytes_per_unit,
    card_unit, last_net, last_disk, prev_net, prev_disk,
    net_dyn_up, net_dyn_down, disk_dyn_read, disk_dyn_write,
    up_mbs, down_mbs, read_mbs, write_mbs, dt_ms, card_cpu, card_mem,
    spin_gpu_refresh, spin_proc_refresh, gpu_refresh_accum, proc_refresh_accum,
    gpu_refreshed, proc_refreshed,
    tick_reads, tick_updated, ticks,
    seen_net, seen_disk, samples, card_floored, tick_trace,
    \* GPUProvider (nvidia-smi method)
    last_smi_utils, last_smi_vram, last_smi_freq, smi_pc, smi_iter,
    gpu_pc, frame, frames,
    \* process list
    procs_primed, proc_filter, core_processes, all_cores_processes,
    proc_count, total_threads, proc_passed, proc_scan,
    \* MetricsCollector
    mc_result, mc_reads, mc_returned, mc_shutdown,
    \* SystemInfoCache
    cache_store, cache_instance, cache_ops, compute_calls, first_computed,
    cache_was_set, cache_ret,
    \* ProcessCollector._collect_processes
    worker_result, worker_runs, worker_enumerated, worker_raised,
    worker_stopped, worker_escaped

chartVars == <<max_points, auto_scale, chart_x, buffers, axis_x, axis_y, appended>>

collVars == <<collecting, shutdown, executor_shutdown, result_queue, running,
              submitted, next_result, last_get, discarded, calls, coll_op>>

monVars == <<elapsed, since_tick, gap_at_tick, prev_tick_paused, paused, unit_mode, bytes_per_unit,
             card_unit, last_net, last_disk, prev_net, prev_disk,
             net_dyn_up, net_dyn_down, disk_dyn_read, disk_dyn_write,
             up_mbs, down_mbs, read_mbs, write_mbs, dt_ms, card_cpu, card_mem,
             spin_gpu_refresh, spin_proc_refresh, gpu_refresh_accum,
             proc_refresh_accum, gpu_refreshed, proc_refreshed,
             tick_reads, tick_updated, ticks,
             seen_net, seen_disk, samples, card_floored, tick_trace>>

gpuVars == <<last_smi_utils, last_smi_vram, last_smi_freq, smi_pc, smi_iter,
             gpu_pc, frame, frames>>

procVars == <<procs_primed, proc_filter, core_processes, all_cores_processes,
              proc_count, total_threads, proc_passed, proc_scan>>

mcVars == <<mc_result, mc_reads, mc_returned, mc_shutdown>>

cacheVars == <<cache_store, cache_instance, cache_ops, compute_calls,
               first_computed, cache_was_set, cache_ret>>

workerVars == <<worker_result, worker_runs, worker_enumerated, worker_raised,
                worker_stopped, worker_escaped>>

vars == <<chartVars, collVars, monVars, gpuVars, procVars, mcVars, cacheVars,
          workerVars>>

\* ========================================================================
\* TimeSeriesChart (src/play.py)
\* ========================================================================
NSeries == 2

ChartValues == {1, 2}

\* the value lists a caller passes: one value per series, or fewer
ChartInputs == {<<v>> : v \in ChartValues} \cup {<<v, w>> : v \in ChartValues, w \in ChartValues}

\* TimeSeriesChart.__init__: _x = 0, empty buffers, x range (0, max_points),
\* y range (0, 100) (kept in tenths).
ChartInit ==
    /\ max_points = MaxPoints
    /\ auto_scale \in BOOLEAN
    /\ chart_x = 0
    /\ buffers = [i \in 1..NSeries |-> <<>>]
    /\ axis_x = <<0, MaxPoints>>
    /\ axis_y = <<0, 1000>>
    /\ appended = [i \in 1..NSeries |-> <<>>]

\* a plausible slip: the slice keeps the oldest max_points points
TrimBuffer_DropNewest(buf, cap) ==
    IF Len(buf) > cap THEN SubSeq(buf, 1, cap) ELSE buf

\* if len(buf) > self.max_points: del buf[: len(buf) - self.max_points]
TrimBuffer(buf, cap) ==
    IF Len(buf) > cap THEN SubSeq(buf, Len(buf) - cap + 1, Len(buf)) ELSE buf

SeqMaxY(buf, m) ==
    LET ys == {buf[k][2] : k \in 1..Len(buf)} \cup {m}
    IN  CHOOSE y \in ys : \A z \in ys : z <= y

\* current_max over all buffers, starting from 1.0; range (0, current_max * 1.2)
AutoScaleTop(bufs) ==
    LET m1 == SeqMaxY(bufs[1], 1)
        m2 == SeqMaxY(bufs[2], m1)
    IN  12 * m2

\* TimeSeriesChart.append(values)
ChartAppend(values) ==
    LET n  == Min(Len(values), NSeries)
        x  == chart_x + 1
        x0 == Max(0, x - max_points)
        nb == [i \in 1..NSeries |->
                 IF i <= n
                 THEN TrimBuffer(Append(buffers[i], <<x, values[i]>>), max_points)
                 ELSE buffers[i]]
    IN  /\ chart_x < MaxAppends
        /\ chart_x' = x
        /\ buffers' = nb
        /\ axis_x' = <<x0, x0 + max_points>>
        /\ axis_y' = IF auto_scale THEN <<0, AutoScaleTop(nb)>> ELSE axis_y
        /\ appended' = [i \in 1..NSeries |->
                          IF i <= n THEN Append(appended[i], values[i]) ELSE appended[i]]
        /\ UNCHANGED <<max_points, auto_scale>>

\* ========================================================================
\* ProcessCollector (spec.md section 4.5, test_process_collector.py)
\* ========================================================================
NoResult == [id |-> 0, kind |-> "None"]

Outcomes == {"ok", "raised"}

\* ProcessCollector.__init__: Queue(maxsize=1), _collecting = False,
\* _shutdown = False
CollectorInit ==
    /\ collecting = FALSE
    /\ shutdown = FALSE
    /\ executor_shutdown = FALSE
    /\ result_queue = <<>>
    /\ running = 0
    /\ submitted = 0
    /\ next_result = 1
    /\ last_get = NoResult
    /\ discarded = {}
    /\ calls = 0
    /\ coll_op = "init"

\* a plausible slip: the guard forgets the in-progress flag
CollectAsyncRefused_IgnoreCollecting == shutdown

\* a plausible slip: the guard forgets the shut-down flag
CollectAsyncRefused_IgnoreShutdown == collecting

\* collect_async: "if already collecting or already shut down, return
\* without effect"
CollectAsyncRefused == collecting \/ shutdown

\* collect_async(n_cores, proc_filter)
CollectAsync ==
    /\ calls < MaxCalls
    /\ calls' = calls + 1
    /\ coll_op' = "collect_async"
    /\ IF CollectAsyncRefused
       THEN UNCHANGED <<collecting, running, submitted>>
       ELSE /\ collecting' = TRUE
            /\ running' = running + 1
            /\ submitted' = submitted + 1
    /\ UNCHANGED <<shutdown, executor_shutdown, result_queue, next_result,
                   last_get, discarded>>

\* a plausible slip: put_nowait on the full queue without clearing it first
\* (queue.Full is swallowed and the old result stays)
PutResult_NoClear(q, r) == IF q = <<>> THEN <<r>> ELSE q

\* _on_collection_complete: clear the old result, put the new one
PutResult(q, r) == <<r>>

\* a plausible slip: the flag is reset on the success path only
FlagAfterCompletion_NoFinally(outcome) == IF outcome = "ok" THEN FALSE ELSE collecting

\* _on_collection_complete: the flag is reset on success and on exception
FlagAfterCompletion(outcome) == FALSE

\* the worker finishes and the done-callback _on_collection_complete(future)
\* runs: result on success, error marker when the future raises
OnCollectionComplete(outcome) ==
    LET r == [id |-> next_result, kind |-> IF outcome = "ok" THEN "result" ELSE "error"]
    IN  /\ running > 0
        /\ coll_op' = "on_collection_complete"
        /\ running' = running - 1
        /\ result_queue' = PutResult(result_queue, r)
        /\ discarded' = discarded \cup
                          ({result_queue[k].id : k \in 1..Len(result_queue)}
                           \ {result_queue'[k].id : k \in 1..Len(result_queue')})
        /\ next_result' = next_result + 1
        /\ collecting' = FlagAfterCompletion(outcome)
        /\ UNCHANGED <<shutdown, executor_shutdown, submitted, last_get, calls>>

\* a plausible slip: the result is returned but left in the queue
QueueAfterGet_Peek(q) == q

\* get_result: get_nowait removes the pending result
QueueAfterGet(q) == <<>>

\* get_result(): non-blocking; None when nothing is pending
GetResult ==
    /\ coll_op' = "get_result"
    /\ last_get' = IF result_queue = <<>> THEN NoResult ELSE Head(result_queue)
    /\ result_queue' = QueueAfterGet(result_queue)
    /\ UNCHANGED <<collecting, shutdown, executor_shutdown, running, submitted,
                   next_result, discarded, calls>>

\* shutdown(): sets the flag and stops the executor; may be called again
Shutdown ==
    /\ coll_op' = "shutdown"
    /\ shutdown' = TRUE
    /\ executor_shutdown' = TRUE
    /\ UNCHANGED <<collecting, result_queue, running, submitted, next_result,
                   last_get, discarded, calls>>

CollectorNext ==
    \/ CollectAsync
    \/ \E outcome \in Outcomes : OnCollectionComplete(outcome)
    \/ GetResult
    \/ Shutdown

\* ========================================================================
\* SystemMonitor (src/play.py, src/system_monitor/app.py)
\* ========================================================================
Channels == {"cpu", "mem", "net", "disk"}

Cards == {"net_up", "net_down", "disk_read", "disk_write"}

\* mapping = {"MB/s": 1_000_000, "MiB/s": 1024**2}
UnitMapping == [m \in {"MB/s", "MiB/s"} |-> IF m = "MB/s" THEN 1000000 ELSE 1048576]

\* texts on_unit_changed can be called with; "KB/s" is not in the mapping
UnitTexts == {"MB/s", "MiB/s", "KB/s"}

\* what psutil.net_io_counters() can return on a tick
NetReadings ==
    { [bytes_sent |-> 1000000, bytes_recv |-> 2000000],
      [bytes_sent |-> 2000000, bytes_recv |-> 500000] }

\* what psutil.disk_io_counters() can return on a tick
DiskReadings ==
    { [read_bytes |-> 0,       write_bytes |-> 1000000],
      [read_bytes |-> 1048576, write_bytes |-> 500000] }

\* stands for Python's None in _last_disk
NoneDisk == [read_bytes |-> -1, write_bytes |-> -1]

\* outcome of one OS read: it raises, or it returns val
PercentReads == {[ok |-> FALSE, val |-> 0], [ok |-> TRUE, val |-> 50]}

NetReads == {[ok |-> FALSE, val |-> r] : r \in {CHOOSE n \in NetReadings : TRUE}}
              \cup {[ok |-> TRUE, val |-> r] : r \in NetReadings}

DiskReads == {[ok |-> FALSE, val |-> NoneDisk], [ok |-> TRUE, val |-> NoneDisk]}
               \cup {[ok |-> TRUE, val |-> r] : r \in DiskReadings}

\* the reads of one tick: cpu, memory, network, disk. The reads after one that
\* raises outside a try block are never made, so they are fixed to one value.
TickInputs ==
    LET p0 == [ok |-> FALSE, val |-> 0]
        n0 == CHOOSE n \in NetReads : ~n.ok
        d0 == [ok |-> FALSE, val |-> NoneDisk]
    IN  {<<c, m, n, d>> \in PercentReads \X PercentReads \X NetReads \X DiskReads :
            /\ ~c.ok => m = p0
            /\ ~m.ok => n = n0
            /\ ~n.ok => d = d0}

\* QElapsedTimer readings move by these amounts (ms) between events; a clock
\* that is not monotonic can step back
ClockSteps == {-100, 100}

\* the clock readings the model follows
MaxElapsed == 100 * MaxClockSteps

MinElapsed == -100 * MaxClockSteps

\* the readings taken by __init__: self._last_net = psutil.net_io_counters(),
\* self._last_disk = psutil.disk_io_counters() (None on a machine without disks)
InitialNet == {[bytes_sent |-> 1000000, bytes_recv |-> 2000000]}

InitialDisk == {[read_bytes |-> 0, write_bytes |-> 1000000], NoneDisk}

\* SystemMonitor.__init__
MonitorInitWith(net, disk) ==
    /\ elapsed = 0
    /\ since_tick = 0
    /\ gap_at_tick = 0
    /\ prev_tick_paused = FALSE
    /\ paused = FALSE
    /\ unit_mode = "MiB/s"
    /\ bytes_per_unit = 1048576
    /\ card_unit = [c \in Cards |-> "MiB/s"]
    /\ last_net = net
    /\ last_disk = disk
    /\ prev_net = net
    /\ prev_disk = disk
    /\ net_dyn_up = FP
    /\ net_dyn_down = FP
    /\ disk_dyn_read = FP
    /\ disk_dyn_write = FP
    /\ up_mbs = 0
    /\ down_mbs = 0
    /\ read_mbs = 0
    /\ write_mbs = 0
    /\ dt_ms = 0
    /\ card_cpu = 0
    /\ card_mem = 0
    /\ spin_gpu_refresh = 100
    /\ spin_proc_refresh = 100
    /\ gpu_refresh_accum = 0
    /\ proc_refresh_accum = 0
    /\ gpu_refreshed = FALSE
    /\ proc_refreshed = FALSE
    /\ tick_reads = [c \in Channels |-> "skipped"]
    /\ tick_updated = {}
    /\ ticks = 0
    /\ seen_net = net
    /\ seen_disk = disk
    /\ samples = 0
    /\ card_floored = [c \in Cards |-> FALSE]
    /\ tick_trace = <<>>

MonitorInit ==
    \E net \in InitialNet, disk \in InitialDisk : MonitorInitWith(net, disk)

\* delta / dt with dt = dt_ms / 1000.0, in bytes per second
PerSecond(delta, ms) ==
    IF ms < 0 THEN -MulDiv(delta, 1000, -ms) ELSE MulDiv(delta, 1000, ms)

\* bytes per second / self._bytes_per_unit, in fixed point
ToUnits(bps, bpu) ==
    LET g == GCD(FP, bpu) IN MulDiv(bps, FP \div g, bpu \div g)

\* a plausible slip: the difference is taken the wrong way round
Delta_Reversed(cur, last) == last - cur

\* net.bytes_sent - self._last_net.bytes_sent
Delta(cur, last) == cur - last

\* a plausible slip: the clamp at zero is missing
RateOf_NoClamp(cur, last, ms, bpu) == ToUnits(PerSecond(Delta(cur, last), ms), bpu)

\* max(0.0, (cur - last) / dt) / self._bytes_per_unit
RateOf(cur, last, ms, bpu) == ToUnits(Max(0, PerSecond(Delta(cur, last), ms)), bpu)

\* math.exp(-x) for fixed-point x >= 0: the Taylor series up to x = 1.0, and
\* exp(-x) = exp(-x/2)^2 above
RECURSIVE ExpNeg(_)
ExpNeg(x) ==
    IF x > FP
    THEN LET h == ExpNeg(x \div 2) IN MulFP(h, h)
    ELSE LET t2 == MulFP(x, x) \div 2
             t3 == MulFP(t2, x) \div 3
             t4 == MulFP(t3, x) \div 4
             t5 == MulFP(t4, x) \div 5
             t6 == MulFP(t5, x) \div 6
         IN  FP - x + t2 - t3 + t4 - t5 + t6

\* a plausible slip: the reference maximum does not decay
Alpha_NoDecay(ms) == FP

\* tau = 10.0; alpha = math.exp(-dt / tau)
Alpha(ms) == ExpNeg(ms * 100)

\* a plausible slip: the maximum only decays and ignores the observed value
DecayMax_DecayOnly(observed, dyn, alpha) == MulFP(dyn, alpha)

\* max(observed, dyn * alpha)
DecayMax(observed, dyn, alpha) == Max(observed, MulFP(dyn, alpha))

\* the smallest divisor update_value uses: 1e-6
RefFloor == 1

\* a plausible slip: the reference maximum is used as the divisor as it is
RefDivisor_NoFloor(ref_max) == ref_max

\* MetricCard.update_value: m = max(ref_max, 1e-6)
RefDivisor(ref_max) == Max(ref_max, RefFloor)

\* whether update_value divides by the floor instead of by ref_max
Floored(ref_max) == RefDivisor(ref_max) # ref_max

\* a plausible slip: a reading below the baseline is not taken as the baseline
NextBaseline_KeepOnReset(reading, last) ==
    IF reading.bytes_sent < last.bytes_sent \/ reading.bytes_recv < last.bytes_recv
    THEN last ELSE reading

\* self._last_net = net
NextBaseline(reading, last) == reading

\* one entry of the order in which a tick reads counters and updates widgets
Ev(op, ch) == [op |-> op, ch |-> ch]

\* max(0.0, min(100.0, float(pct)))
ClampPercent(p) == Max(0, Min(100, p))

\* self._xxx_refresh_accum += dt; refresh and reset when >= the interval
AccumAfter(acc, ms, interval) == IF acc + ms >= interval THEN 0 ELSE acc + ms

RefreshDue(acc, ms, interval) == acc + ms >= interval

\* a plausible slip: the paused branch returns without restarting the clock
PausedElapsed_NoRestart(e) == e

\* if self._paused: self._elapsed.restart()
PausedElapsed(e) == 0

\* on_timer while paused: restart the clock and return
PausedTick ==
    /\ elapsed' = PausedElapsed(elapsed)
    /\ tick_reads' = [c \in Channels |-> "skipped"]
    /\ tick_updated' = {}
    /\ tick_trace' = <<>>
    /\ UNCHANGED <<seen_net, seen_disk, samples, card_floored>>
    /\ UNCHANGED <<last_net, last_disk, prev_net, prev_disk,
                   net_dyn_up, net_dyn_down, disk_dyn_read, disk_dyn_write,
                   up_mbs, down_mbs, read_mbs, write_mbs, dt_ms, card_cpu, card_mem,
                   gpu_refresh_accum, proc_refresh_accum, gpu_refreshed,
                   proc_refreshed>>

\* a plausible slip: "restart() or 1", which replaces a reading of 0 only
ClampDt_OrOne(e) == IF e = 0 THEN 1 ELSE e

\* dt_ms = max(1, self._elapsed.restart())
ClampDt(e) == Max(1, e)

\* on_timer while running. A read that raises outside a try block ends the
\* handler there: what was assigned before stays, the rest is not executed.
\* The cards keep the value they were last given (card_cpu, card_mem and the
\* four rates); the chart and sparkline appends made along the way are
\* ChartAppend calls on chart objects of their own, followed in SpecChart.
RunningTick(cpu, mem, net, dio) ==
    LET ms      == ClampDt(elapsed)
        alpha   == Alpha(ms)
        memRun  == cpu.ok
        netRun  == memRun /\ mem.ok
        diskRun == netRun /\ net.ok
        up      == RateOf(net.val.bytes_sent, last_net.bytes_sent, ms, bytes_per_unit)
        down    == RateOf(net.val.bytes_recv, last_net.bytes_recv, ms, bytes_per_unit)
        d       == IF dio.ok THEN dio.val ELSE NoneDisk
        both    == d # NoneDisk /\ last_disk # NoneDisk
        rd      == IF both
                   THEN RateOf(d.read_bytes, last_disk.read_bytes, ms, bytes_per_unit)
                   ELSE 0
        wr      == IF both
                   THEN RateOf(d.write_bytes, last_disk.write_bytes, ms, bytes_per_unit)
                   ELSE 0
    IN  /\ elapsed' = 0
        /\ dt_ms' = ms
        /\ card_cpu' = IF cpu.ok THEN ClampPercent(cpu.val) ELSE card_cpu
        /\ card_mem' = IF netRun THEN ClampPercent(mem.val) ELSE card_mem
        /\ IF diskRun
           THEN /\ up_mbs' = up
                /\ down_mbs' = down
                /\ prev_net' = last_net
                /\ seen_net' = net.val
                /\ last_net' = NextBaseline(net.val, last_net)
                /\ samples' = Min(2, samples + 1)
                /\ card_floored' =
                     [c \in Cards |->
                        CASE c = "net_up"     -> Floored(DecayMax(up, net_dyn_up, alpha))
                          [] c = "net_down"   -> Floored(DecayMax(down, net_dyn_down, alpha))
                          [] c = "disk_read"  -> Floored(DecayMax(rd, disk_dyn_read, alpha))
                          [] c = "disk_write" -> Floored(DecayMax(wr, disk_dyn_write, alpha))]
                /\ net_dyn_up' = DecayMax(up, net_dyn_up, alpha)
                /\ net_dyn_down' = DecayMax(down, net_dyn_down, alpha)
                /\ read_mbs' = rd
                /\ write_mbs' = wr
                /\ prev_disk' = last_disk
                /\ seen_disk' = d
                /\ last_disk' = d
                /\ disk_dyn_read' = DecayMax(rd, disk_dyn_read, alpha)
                /\ disk_dyn_write' = DecayMax(wr, disk_dyn_write, alpha)
                /\ gpu_refresh_accum' = AccumAfter(gpu_refresh_accum, ms, spin_gpu_refresh)
                /\ gpu_refreshed' = RefreshDue(gpu_refresh_accum, ms, spin_gpu_refresh)
                /\ proc_refresh_accum' = AccumAfter(proc_refresh_accum, ms, spin_proc_refresh)
                /\ proc_refreshed' = RefreshDue(proc_refresh_accum, ms, spin_proc_refresh)
           ELSE /\ gpu_refreshed' = FALSE
                /\ proc_refreshed' = FALSE
                /\ UNCHANGED <<up_mbs, down_mbs, prev_net, last_net, net_dyn_up,
                               net_dyn_down, read_mbs, write_mbs, prev_disk,
                               last_disk, disk_dyn_read, disk_dyn_write,
                               gpu_refresh_accum, proc_refresh_accum,
                               seen_net, seen_disk, samples, card_floored>>
        /\ tick_reads' =
             [c \in Channels |->
                CASE c = "cpu"  -> IF cpu.ok THEN "ok" ELSE "raised"
                  [] c = "mem"  -> IF ~memRun THEN "skipped"
                                   ELSE IF mem.ok THEN "ok" ELSE "raised"
                  [] c = "net"  -> IF ~netRun THEN "skipped"
                                   ELSE IF net.ok THEN "ok" ELSE "raised"
                  [] c = "disk" -> IF ~diskRun THEN "skipped"
                                   ELSE IF ~dio.ok THEN "raised"
                                   ELSE IF d = NoneDisk THEN "none" ELSE "ok"]
        /\ tick_updated' = {c \in Channels :
                              \/ c = "cpu" /\ cpu.ok
                              \/ c = "mem" /\ netRun
                              \/ c \in {"net", "disk"} /\ diskRun}
        /\ tick_trace' =
             <<Ev("read", "cpu")>>
             \o (IF cpu.ok THEN <<Ev("update", "cpu"), Ev("read", "mem")>> ELSE <<>>)
             \o (IF netRun THEN <<Ev("update", "mem"), Ev("read", "net")>> ELSE <<>>)
             \o (IF diskRun
                 THEN <<Ev("update", "net"), Ev("read", "disk"), Ev("update", "disk")>>
                 ELSE <<>>)
             \o (IF diskRun /\ RefreshDue(gpu_refresh_accum, ms, spin_gpu_refresh)
                 THEN <<Ev("read", "gpu")>> ELSE <<>>)

\* SystemMonitor.on_timer
OnTimer(cpu, mem, net, dio) ==
    /\ ticks < MaxTicks
    /\ ticks' = ticks + 1
    /\ gap_at_tick' = since_tick
    /\ prev_tick_paused' = (ticks > 0 /\ tick_reads["cpu"] = "skipped")
    /\ since_tick' = 0
    /\ IF paused THEN PausedTick ELSE RunningTick(cpu, mem, net, dio)
    /\ UNCHANGED <<paused, unit_mode, bytes_per_unit, card_unit,
                   spin_gpu_refresh, spin_proc_refresh>>

\* a plausible slip: one of the four reset lines is missing
ResetDiskDynWrite_Missing(old) == old

\* self._disk_dyn_write = 1.0
ResetDiskDynWrite(old) == FP

\* a plausible slip: the check of the mode is missing
ModeKnown_Unchecked(mode) == TRUE

\* if mode not in mapping: return
ModeKnown(mode) == mode \in DOMAIN UnitMapping

\* SystemMonitor.on_unit_changed(mode). Past the check, self.unit_mode = mode
\* is assigned first and mapping[mode] raises KeyError for a key that is not
\* in the mapping, which ends the handler there.
OnUnitChanged(mode) ==
    /\ IF ~ModeKnown(mode)
       THEN UNCHANGED <<unit_mode, bytes_per_unit, card_unit, net_dyn_up,
                        net_dyn_down, disk_dyn_read, disk_dyn_write>>
       ELSE IF mode \notin DOMAIN UnitMapping
       THEN /\ unit_mode' = mode
            /\ UNCHANGED <<bytes_per_unit, card_unit, net_dyn_up,
                           net_dyn_down, disk_dyn_read, disk_dyn_write>>
       ELSE /\ unit_mode' = mode
            /\ bytes_per_unit' = UnitMapping[mode]
            /\ card_unit' = [c \in Cards |-> mode]
            /\ net_dyn_up' = FP
            /\ net_dyn_down' = FP
            /\ disk_dyn_read' = FP
            /\ disk_dyn_write' = ResetDiskDynWrite(disk_dyn_write)
    /\ UNCHANGED <<elapsed, since_tick, gap_at_tick, prev_tick_paused, paused, last_net, last_disk,
                   prev_net, prev_disk, up_mbs, down_mbs, read_mbs, write_mbs,
                   dt_ms, card_cpu, card_mem, spin_gpu_refresh, spin_proc_refresh,
                   gpu_refresh_accum, proc_refresh_accum, gpu_refreshed,
                   proc_refreshed, tick_reads, tick_updated, ticks,
                   seen_net, seen_disk, samples, card_floored, tick_trace>>

\* SystemMonitor.toggle_pause
TogglePause ==
    /\ paused' = ~paused
    /\ UNCHANGED <<elapsed, since_tick, gap_at_tick, prev_tick_paused, unit_mode, bytes_per_unit,
                   card_unit, last_net, last_disk, prev_net, prev_disk,
                   net_dyn_up, net_dyn_down, disk_dyn_read, disk_dyn_write,
                   up_mbs, down_mbs, read_mbs, write_mbs, dt_ms, card_cpu,
                   card_mem, spin_gpu_refresh, spin_proc_refresh,
                   gpu_refresh_accum, proc_refresh_accum, gpu_refreshed,
                   proc_refreshed, tick_reads, tick_updated, ticks,
                   seen_net, seen_disk, samples, card_floored, tick_trace>>

\* time passes between two events: the QElapsedTimer reading moves
ClockAdvance(step) ==
    /\ elapsed + step >= MinElapsed
    /\ elapsed + step <= MaxElapsed
    /\ since_tick + step >= MinElapsed
    /\ since_tick + step <= MaxElapsed
    /\ elapsed' = elapsed + step
    /\ since_tick' = since_tick + step
    /\ UNCHANGED <<gap_at_tick, prev_tick_paused, paused, unit_mode, bytes_per_unit,
                   card_unit, last_net, last_disk, prev_net, prev_disk,
                   net_dyn_up, net_dyn_down, disk_dyn_read, disk_dyn_write,
                   up_mbs, down_mbs, read_mbs, write_mbs, dt_ms, card_cpu,
                   card_mem, spin_gpu_refresh, spin_proc_refresh,
                   gpu_refresh_accum, proc_refresh_accum, gpu_refreshed,
                   proc_refreshed, tick_reads, tick_updated, ticks,
                   seen_net, seen_disk, samples, card_floored, tick_trace>>

\* how long the event loop can be held up before the next tick (ms): the
\* machine was suspended, or the process was stopped
StallMs == 200000

\* the timer event is delivered late: the clock reading jumps ahead
ClockStall ==
    /\ elapsed <= MaxElapsed
    /\ since_tick <= MaxElapsed
    /\ elapsed' = elapsed + StallMs
    /\ since_tick' = since_tick + StallMs
    /\ UNCHANGED <<gap_at_tick, prev_tick_paused, paused, unit_mode, bytes_per_unit,
                   card_unit, last_net, last_disk, prev_net, prev_disk,
                   net_dyn_up, net_dyn_down, disk_dyn_read, disk_dyn_write,
                   up_mbs, down_mbs, read_mbs, write_mbs, dt_ms, card_cpu,
                   card_mem, spin_gpu_refresh, spin_proc_refresh,
                   gpu_refresh_accum, proc_refresh_accum, gpu_refreshed,
                   proc_refreshed, tick_reads, tick_updated, ticks,
                   seen_net, seen_disk, samples, card_floored, tick_trace>>

MonitorNext ==
    \/ \E in \in TickInputs : OnTimer(in[1], in[2], in[3], in[4])
    \/ \E mode \in UnitTexts : OnUnitChanged(mode)
    \/ TogglePause
    \/ \E step \in ClockSteps : ClockAdvance(step)

\* ========================================================================
\* GPUProvider, nvidia-smi method (src/play.py)
\* ========================================================================
\* The values of one poll iteration are carried as the number of that
\* iteration; 0 stands for the zeros __init__ puts in the three lists.

\* what one nvidia-smi query of the polling loop can do: return values, return
\* nothing (no output line), or raise (timeout)
SmiOutcomes == {"values", "empty", "raised"}

\* GPUProvider.__init__ when nvidia-smi is found: the lists are zeroed and the
\* polling thread is started; the main loop has read no frame yet
GpuInit ==
    /\ last_smi_utils = 0
    /\ last_smi_vram = 0
    /\ last_smi_freq = 0
    /\ smi_pc = "utils"
    /\ smi_iter = 1
    /\ gpu_pc = "utils"
    /\ frame = [utils |-> 0, freq |-> 0, vram |-> 0]
    /\ frames = 0

\* _smi_poll_loop: utils = self._query_nvidia_smi_utils();
\* if utils: self._last_smi_utils = utils
SmiPollUtils(out) ==
    /\ smi_pc = "utils"
    /\ last_smi_utils' = IF out = "values" THEN smi_iter ELSE last_smi_utils
    /\ smi_pc' = IF out = "raised" THEN "sleep" ELSE "vram"
    /\ UNCHANGED <<last_smi_vram, last_smi_freq, smi_iter, gpu_pc, frame, frames>>

\* _smi_poll_loop: vram = self._query_nvidia_smi_vram();
\* if vram: self._last_smi_vram = vram
SmiPollVram(out) ==
    /\ smi_pc = "vram"
    /\ last_smi_vram' = IF out = "values" THEN smi_iter ELSE last_smi_vram
    /\ smi_pc' = IF out = "raised" THEN "sleep" ELSE "freq"
    /\ UNCHANGED <<last_smi_utils, last_smi_freq, smi_iter, gpu_pc, frame, frames>>

\* _smi_poll_loop: freq = self._query_nvidia_smi_freq();
\* if freq: self._last_smi_freq = freq
SmiPollFreq(out) ==
    /\ smi_pc = "freq"
    /\ last_smi_freq' = IF out = "values" THEN smi_iter ELSE last_smi_freq
    /\ smi_pc' = "sleep"
    /\ UNCHANGED <<last_smi_utils, last_smi_vram, smi_iter, gpu_pc, frame, frames>>

\* _smi_poll_loop: time.sleep(self._smi_min_interval), then the next iteration
SmiSleep ==
    /\ smi_pc = "sleep"
    /\ smi_iter < MaxPolls
    /\ smi_iter' = smi_iter + 1
    /\ smi_pc' = "utils"
    /\ UNCHANGED <<last_smi_utils, last_smi_vram, last_smi_freq, gpu_pc, frame, frames>>

\* on_timer, GPU refresh: utils = self.gpu_provider.gpu_utils()
GpuReadUtils ==
    /\ gpu_pc = "utils"
    /\ frames < MaxFrames
    /\ frame' = [frame EXCEPT !.utils = last_smi_utils]
    /\ gpu_pc' = "freq"
    /\ UNCHANGED <<last_smi_utils, last_smi_vram, last_smi_freq, smi_pc, smi_iter, frames>>

\* on_timer, GPU refresh: freqs = self.gpu_provider.gpu_frequencies()
GpuReadFreq ==
    /\ gpu_pc = "freq"
    /\ frame' = [frame EXCEPT !.freq = last_smi_freq]
    /\ gpu_pc' = "vram"
    /\ UNCHANGED <<last_smi_utils, last_smi_vram, last_smi_freq, smi_pc, smi_iter, frames>>

\* on_timer, GPU refresh: vram_info = self.gpu_provider.gpu_vram_info(); the
\* frame is complete and goes to the card and the charts
GpuReadVram ==
    /\ gpu_pc = "vram"
    /\ frame' = [frame EXCEPT !.vram = last_smi_vram]
    /\ gpu_pc' = "utils"
    /\ frames' = frames + 1
    /\ UNCHANGED <<last_smi_utils, last_smi_vram, last_smi_freq, smi_pc, smi_iter>>

\* the polling thread and the main loop run side by side
GpuNext ==
    \/ \E out \in SmiOutcomes : SmiPollUtils(out)
    \/ \E out \in SmiOutcomes : SmiPollVram(out)
    \/ \E out \in SmiOutcomes : SmiPollFreq(out)
    \/ SmiSleep
    \/ GpuReadUtils
    \/ GpuReadFreq
    \/ GpuReadVram

\* ========================================================================
\* Process list (src/system_monitor/core/process_manager.py,
\* src/system_monitor/app.py)
\* ========================================================================
\* A string is the sequence of its characters.

\* str.lower() on one character
LowerChar(ch) ==
    CASE ch = "A" -> "a"
      [] ch = "B" -> "b"
      [] OTHER    -> ch

\* str.lower()
Lower(str) == [i \in 1..Len(str) |-> LowerChar(str[i])]

\* str.strip()
RECURSIVE Strip(_)
Strip(str) ==
    IF str = <<>> THEN str
    ELSE IF Head(str) = " " THEN Strip(Tail(str))
    ELSE IF str[Len(str)] = " " THEN Strip(SubSeq(str, 1, Len(str) - 1))
    ELSE str

Digits == <<"0", "1", "2", "3", "4", "5", "6", "7", "8", "9">>

\* str(pid)
RECURSIVE PidStr(_)
PidStr(n) ==
    IF n < 10 THEN <<Digits[n + 1]>>
    ELSE PidStr(n \div 10) \o <<Digits[(n % 10) + 1]>>

\* sub in str
Contains(sub, str) ==
    \E i \in 1..(Len(str) - Len(sub) + 1) : SubSeq(str, i, i + Len(sub) - 1) = sub

\* what p.cpu_affinity() can do: raise (ok is FALSE) or return a list of core ids
Affinity(ok, cores) == [ok |-> ok, cores |-> cores]

\* the processes psutil.process_iter can yield; a name of None is read as ""
ProcUniverse ==
    { [pid |-> 1,  name |-> <<"A", "b">>, threads |-> 2, aff |-> Affinity(TRUE, <<0>>)],
      [pid |-> 2,  name |-> <<"b">>,      threads |-> 1, aff |-> Affinity(TRUE, <<2>>)],
      [pid |-> 3,  name |-> <<>>,         threads |-> 1, aff |-> Affinity(TRUE, <<>>)],
      [pid |-> 12, name |-> <<"b", "a">>, threads |-> 4, aff |-> Affinity(TRUE, <<0, 1>>)],
      [pid |-> 21, name |-> <<"a">>,      threads |-> 1, aff |-> Affinity(FALSE, <<>>)],
      [pid |-> 30, name |-> <<"B", "1">>, threads |-> 3, aff |-> Affinity(TRUE, <<1>>)] }

\* process_iter yields the processes in pid order
RECURSIVE SortedTable(_)
SortedTable(S) ==
    IF S = {} THEN <<>>
    ELSE LET first == CHOOSE p \in S : \A q \in S : p.pid <= q.pid
         IN  <<first>> \o SortedTable(S \ {first})

ProcTables ==
    {SortedTable(S) : S \in {T \in SUBSET ProcUniverse : Cardinality(T) <= MaxProcs}}

\* what psutil.cpu_count(logical=True) can return; 0 stands for None
CpuCounts == 0..MaxCores

\* psutil.cpu_count(logical=True) or 1
NCores(count) == IF count = 0 THEN 1 ELSE count

\* what the search box can hold
SearchTexts ==
    { <<>>, <<" ">>, <<"a">>, <<"A", "b">>, <<" ", "1", " ">>, <<"2">>, <<"z">> }

\* the constructor: no filter, not primed, nothing listed yet
ProcInit ==
    /\ procs_primed = FALSE
    /\ proc_filter = <<>>
    /\ core_processes = [i \in {} |-> <<>>]
    /\ all_cores_processes = <<>>
    /\ proc_count = 0
    /\ total_threads = 0
    /\ proc_passed = {}
    /\ proc_scan = [table |-> <<>>, n_cores |-> 1, filter |-> <<>>]

\* a plausible slip: the filter is matched against the name only
FilteredOut_NameOnly(flt, p) ==
    /\ flt # <<>>
    /\ ~Contains(flt, Lower(p.name))

\* if monitor._proc_filter: if filter not in name.lower() and filter not in
\* str(pid): continue
FilteredOut(flt, p) ==
    /\ flt # <<>>
    /\ ~Contains(flt, Lower(p.name))
    /\ ~Contains(flt, PidStr(p.pid))

\* a plausible slip: a process that may run on every core counts as pinned
Pinned_LenLeq(aff, n) == aff.ok /\ aff.cores # <<>> /\ Len(aff.cores) <= n

\* affinity = p.cpu_affinity() returned, and: if affinity and len(affinity) < n_cores
Pinned(aff, n) == aff.ok /\ aff.cores # <<>> /\ Len(aff.cores) < n

\* for core_id in affinity: if core_id < n_cores: core_processes[core_id].append(...)
CoreBucket(tbl, flt, n, core) ==
    LET placed(p) == /\ ~FilteredOut(flt, p)
                     /\ Pinned(p.aff, n)
                     /\ core < n
                     /\ \E k \in 1..Len(p.aff.cores) : p.aff.cores[k] = core
        sel == SelectSeq(tbl, placed)
    IN  [k \in 1..Len(sel) |-> sel[k].pid]

\* the two all_cores_processes.append(...) branches
AnyCoreBucket(tbl, flt, n) ==
    LET placed(p) == ~FilteredOut(flt, p) /\ ~Pinned(p.aff, n)
        sel == SelectSeq(tbl, placed)
    IN  [k \in 1..Len(sel) |-> sel[k].pid]

\* a plausible slip: the totals are taken after the filter
Counted_AfterFilter(tbl, flt) ==
    LET passes(p) == ~FilteredOut(flt, p) IN SelectSeq(tbl, passes)

\* proc_count += 1 and total_threads += threads come before the filter's
\* continue: every enumerated process is counted
Counted(tbl, flt) == tbl

RECURSIVE SumThreads(_)
SumThreads(tbl) == IF tbl = <<>> THEN 0 ELSE Head(tbl).threads + SumThreads(Tail(tbl))

\* ProcessManager.refresh_processes with the filter flt: the first call only
\* primes the per-process CPU counters
RefreshWith(flt, tbl, count) ==
    LET n == NCores(count)
    IN  IF ~procs_primed
        THEN /\ procs_primed' = TRUE
             /\ UNCHANGED <<core_processes, all_cores_processes, proc_count,
                            total_threads, proc_passed, proc_scan>>
        ELSE /\ UNCHANGED procs_primed
             /\ core_processes' = [i \in 0..(n - 1) |-> CoreBucket(tbl, flt, n, i)]
             /\ all_cores_processes' = AnyCoreBucket(tbl, flt, n)
             /\ proc_count' = Len(Counted(tbl, flt))
             /\ total_threads' = SumThreads(Counted(tbl, flt))
             /\ proc_passed' = {tbl[k].pid : k \in {j \in 1..Len(tbl) : ~FilteredOut(flt, tbl[j])}}
             /\ proc_scan' = [table |-> tbl, n_cores |-> n, filter |-> flt]

\* on_timer reaches refresh_processes when the process interval has passed;
\* it returns before that while paused
RefreshProcesses(tbl, count) ==
    /\ ~paused
    /\ RefreshWith(proc_filter, tbl, count)
    /\ UNCHANGED proc_filter

\* SystemMonitor.on_proc_search_changed(text)
OnProcSearchChanged(text, tbl, count) ==
    /\ proc_filter' = Lower(Strip(text))
    /\ IF ~paused
       THEN RefreshWith(Lower(Strip(text)), tbl, count)
       ELSE UNCHANGED <<procs_primed, core_processes, all_cores_processes,
                        proc_count, total_threads, proc_passed, proc_scan>>

ProcNext ==
    \/ \E tbl \in ProcTables, count \in CpuCounts : RefreshProcesses(tbl, count)
    \/ \E text \in SearchTexts, tbl \in ProcTables, count \in CpuCounts :
           OnProcSearchChanged(text, tbl, count)

\* ========================================================================
\* MetricsCollector (tests/system_monitor/core/test_metrics_collector.py)
\* ========================================================================
MetricKeys == {"cpu", "cpu_percpu", "cpu_freq", "memory", "network", "disk"}

\* stands for Python's None where an object is expected
NoneObject == [present |-> FALSE, val |-> 0]

Object(v) == [present |-> TRUE, val |-> v]

\* what the psutil call behind a key can return: cpu_percent a number,
\* cpu_percent(percpu=True) a list, the others an object; cpu_freq and
\* disk_io_counters return None on machines without the information
ReadValues(k) ==
    CASE k = "cpu"        -> {0, 50}
      [] k = "cpu_percpu" -> {<<>>, <<25, 50>>}
      [] k = "cpu_freq"   -> {NoneObject, Object(3600)}
      [] k = "memory"     -> {Object(65)}
      [] k = "network"    -> {Object(1000)}
      [] k = "disk"       -> {NoneObject, Object(5000)}

\* one OS read: it raises, or it returns val
ReadOutcomes(k) ==
    {[ok |-> FALSE, val |-> CHOOSE v \in ReadValues(k) : TRUE]}
        \cup {[ok |-> TRUE, val |-> v] : v \in ReadValues(k)}

\* the reads of one collect_all call
ReadsOf(cpu, percpu, freq, mem, net, dio) ==
    [k \in MetricKeys |->
        CASE k = "cpu"        -> cpu
          [] k = "cpu_percpu" -> percpu
          [] k = "cpu_freq"   -> freq
          [] k = "memory"     -> mem
          [] k = "network"    -> net
          [] k = "disk"       -> dio]

\* what a _collect_* method returns when its read raises
DefaultOf(k) ==
    CASE k = "cpu"        -> 0
      [] k = "cpu_percpu" -> <<>>
      [] OTHER            -> NoneObject

\* _collect_cpu_percent, _collect_cpu_percpu (result or []), _collect_cpu_freq,
\* _collect_memory, _collect_network, _collect_disk
CollectOne(k, read) == IF read.ok THEN read.val ELSE DefaultOf(k)

\* a plausible slip: a key whose future failed is left out of the dictionary
ResultKeys_OnlySucceeded(reads) == {k \in MetricKeys : reads[k].ok}

\* the keys collect_all puts in its result
ResultKeys(reads) == MetricKeys

\* MetricsCollector.__init__: the executor is running, nothing was returned
MetricsInit ==
    /\ mc_result = [k \in MetricKeys |-> DefaultOf(k)]
    /\ mc_reads = [k \in MetricKeys |-> CHOOSE r \in ReadOutcomes(k) : ~r.ok]
    /\ mc_returned = FALSE
    /\ mc_shutdown = FALSE

\* MetricsCollector.collect_all
CollectAll(reads) ==
    /\ ~mc_shutdown
    /\ mc_result' = [k \in ResultKeys(reads) |-> CollectOne(k, reads[k])]
    /\ mc_reads' = reads
    /\ mc_returned' = TRUE
    /\ UNCHANGED mc_shutdown

\* MetricsCollector.shutdown
MetricsShutdown ==
    /\ mc_shutdown' = TRUE
    /\ UNCHANGED <<mc_result, mc_reads, mc_returned>>

MetricsNext ==
    \/ \E cpu \in ReadOutcomes("cpu"), percpu \in ReadOutcomes("cpu_percpu"),
          freq \in ReadOutcomes("cpu_freq"), mem \in ReadOutcomes("memory"),
          net \in ReadOutcomes("network"), dio \in ReadOutcomes("disk") :
             CollectAll(ReadsOf(cpu, percpu, freq, mem, net, dio))
    \/ MetricsShutdown

\* ========================================================================
\* SystemInfoCache and cached_static_property (test_cache.py)
\* ========================================================================
MaxCacheOps == 4

MaxResets == 1

CacheKeys == {"key", "test_prop_args"}

\* what a cached value can be; "None" stands for Python's None
CacheValues == {"None", "value_1", "value_2"}

\* a key that is not in the dictionary
Absent == [present |-> FALSE, value |-> "None"]

Stored(v) == [present |-> TRUE, value |-> v]

\* SystemInfoCache(): the singleton with an empty dictionary
CacheInit ==
    /\ cache_store = [k \in CacheKeys |-> Absent]
    /\ cache_instance = 0
    /\ cache_ops = 0
    /\ compute_calls = [k \in CacheKeys |-> 0]
    /\ first_computed = [k \in CacheKeys |-> Absent]
    /\ cache_was_set = [k \in CacheKeys |-> FALSE]
    \* no get_or_compute call has returned yet (call numbers the operations)
    /\ cache_ret = [key |-> "", value |-> "None", computed |-> FALSE, call |-> 0]

\* a plausible slip: "if self.get(key) is not None", which takes a stored
\* None for a missing key
IsCached_NotNone(key) == cache_store[key].present /\ cache_store[key].value # "None"

\* the key is in the dictionary, whatever its value
IsCached(key) == cache_store[key].present

\* SystemInfoCache.get_or_compute(key, compute_func), compute_func returning v
GetOrCompute(key, v) ==
    /\ cache_ops < MaxCacheOps
    /\ cache_ops' = cache_ops + 1
    /\ IF IsCached(key)
       THEN /\ cache_ret' = [key |-> key, value |-> cache_store[key].value,
                             computed |-> FALSE, call |-> cache_ops + 1]
            /\ UNCHANGED <<cache_store, compute_calls, first_computed>>
       ELSE /\ cache_store' = [cache_store EXCEPT ![key] = Stored(v)]
            /\ compute_calls' = [compute_calls EXCEPT ![key] = @ + 1]
            /\ first_computed' =
                 [first_computed EXCEPT
                    ![key] = IF @.present THEN @ ELSE Stored(v)]
            /\ cache_ret' = [key |-> key, value |-> v, computed |-> TRUE,
                             call |-> cache_ops + 1]
    /\ UNCHANGED <<cache_instance, cache_was_set>>

\* func_with_args(a): the wrapper calls
\* get_or_compute('test_prop_args', lambda: func(a)); func returns its argument
DecoratedCall(a) == GetOrCompute("test_prop_args", a)

\* SystemInfoCache.set(key, value)
CacheSet(key, v) ==
    /\ cache_ops < MaxCacheOps
    /\ cache_ops' = cache_ops + 1
    /\ cache_store' = [cache_store EXCEPT ![key] = Stored(v)]
    /\ cache_was_set' = [cache_was_set EXCEPT ![key] = TRUE]
    /\ UNCHANGED <<cache_instance, compute_calls, first_computed, cache_ret>>

\* SystemInfoCache.clear()
CacheClear ==
    /\ cache_ops < MaxCacheOps
    /\ cache_ops' = cache_ops + 1
    /\ cache_store' = [k \in CacheKeys |-> Absent]
    /\ compute_calls' = [k \in CacheKeys |-> 0]
    /\ first_computed' = [k \in CacheKeys |-> Absent]
    /\ cache_was_set' = [k \in CacheKeys |-> FALSE]
    /\ UNCHANGED <<cache_instance, cache_ret>>

\* SystemInfoCache.reset(): the next SystemInfoCache() is a new, empty object
CacheReset ==
    /\ cache_instance < MaxResets
    /\ cache_instance' = cache_instance + 1
    /\ cache_store' = [k \in CacheKeys |-> Absent]
    /\ compute_calls' = [k \in CacheKeys |-> 0]
    /\ first_computed' = [k \in CacheKeys |-> Absent]
    /\ cache_was_set' = [k \in CacheKeys |-> FALSE]
    /\ UNCHANGED <<cache_ops, cache_ret>>

CacheNext ==
    \/ \E v \in CacheValues : GetOrCompute("key", v)
    \/ \E a \in {"value_1", "value_2"} : DecoratedCall(a)
    \/ \E k \in CacheKeys, v \in CacheValues : CacheSet(k, v)
    \/ CacheClear
    \/ CacheReset

\* ========================================================================
\* ProcessCollector._collect_processes, the worker (test_process_collector.py)
\* ========================================================================
MaxRuns == 2

\* what psutil.process_iter does in the worker: it raises, or it yields a table
WorkerEnums ==
    {[ok |-> FALSE, table |-> <<>>]} \cup {[ok |-> TRUE, table |-> t] : t \in ProcTables}

\* the result of a run that listed nothing
EmptyResult(n, marker) ==
    [error |-> marker,
     core_processes |-> [i \in 0..(n - 1) |-> <<>>],
     all_cores_processes |-> <<>>,
     proc_count |-> 0,
     total_threads |-> 0]

\* ProcessCollector.__init__: no worker has run
WorkerInit ==
    /\ worker_result = EmptyResult(1, FALSE)
    /\ worker_runs = 0
    /\ worker_enumerated = FALSE
    /\ worker_raised = FALSE
    /\ worker_stopped = FALSE
    /\ worker_escaped = FALSE

\* a plausible slip: the enumeration is outside the try block
Caught_Unguarded(enum) == enum.ok

\* the worker's "except Exception" around the enumeration catches what
\* process_iter raises
Caught(enum) == TRUE

\* _collect_processes(n_cores, proc_filter), run by the executor
CollectProcesses(n, flt, enum) ==
    /\ worker_runs < MaxRuns
    /\ worker_runs' = worker_runs + 1
    /\ worker_stopped' = shutdown
    /\ IF shutdown
       THEN /\ worker_result' = EmptyResult(n, FALSE)
            /\ worker_enumerated' = FALSE
            /\ worker_raised' = FALSE
            /\ worker_escaped' = FALSE
       ELSE /\ worker_enumerated' = TRUE
            /\ worker_raised' = ~enum.ok
            /\ worker_escaped' = ~Caught(enum)
            /\ worker_result' =
                 IF ~Caught(enum) THEN worker_result
                 ELSE IF ~enum.ok THEN EmptyResult(n, TRUE)
                 ELSE [error |-> FALSE,
                       core_processes |->
                           [i \in 0..(n - 1) |-> CoreBucket(enum.table, flt, n, i)],
                       all_cores_processes |-> AnyCoreBucket(enum.table, flt, n),
                       proc_count |-> Len(Counted(enum.table, flt)),
                       total_threads |-> SumThreads(Counted(enum.table, flt))]

WorkerNext ==
    \/ /\ \E count \in CpuCounts, flt \in {<<>>, <<"a">>}, enum \in WorkerEnums :
             CollectProcesses(NCores(count), flt, enum)
       /\ UNCHANGED collVars
    \/ Shutdown /\ UNCHANGED workerVars

\* ========================================================================
\* Specifications
\* ========================================================================
ChartQuiet == ChartInit /\ auto_scale = FALSE

MonitorQuiet ==
    MonitorInitWith([bytes_sent |-> 1000000, bytes_recv |-> 2000000], NoneDisk)

InitChart == ChartInit /\ CollectorInit /\ MonitorQuiet /\ GpuInit /\ ProcInit /\ MetricsInit /\ CacheInit /\ WorkerInit

NextChart ==
    /\ \E values \in ChartInputs : ChartAppend(values)
    /\ UNCHANGED <<collVars, monVars, gpuVars, procVars, mcVars, cacheVars, workerVars>>

SpecChart == InitChart /\ [][NextChart]_vars

InitCollector == ChartQuiet /\ CollectorInit /\ MonitorQuiet /\ GpuInit /\ ProcInit /\ MetricsInit /\ CacheInit /\ WorkerInit

NextCollector == CollectorNext /\ UNCHANGED <<chartVars, monVars, gpuVars, procVars, mcVars, cacheVars, workerVars>>

SpecCollector == InitCollector /\ [][NextCollector]_vars

Init == ChartQuiet /\ CollectorInit /\ MonitorInit /\ GpuInit /\ ProcInit /\ MetricsInit /\ CacheInit /\ WorkerInit

Next == MonitorNext /\ UNCHANGED <<chartVars, collVars, gpuVars, procVars, mcVars, cacheVars, workerVars>>

Spec == Init /\ [][Next]_vars

\* the monitor left running unattended: ticks, some of them late
NextStall ==
    /\ \/ \E in \in TickInputs : OnTimer(in[1], in[2], in[3], in[4])
       \/ ClockStall
    /\ UNCHANGED <<chartVars, collVars, gpuVars, procVars, mcVars, cacheVars, workerVars>>

SpecStall == Init /\ [][NextStall]_vars

InitGpu == ChartQuiet /\ CollectorInit /\ MonitorQuiet /\ GpuInit /\ ProcInit /\ MetricsInit /\ CacheInit /\ WorkerInit

NextGpu == GpuNext /\ UNCHANGED <<chartVars, collVars, monVars, procVars, mcVars, cacheVars, workerVars>>

SpecGpu == InitGpu /\ [][NextGpu]_vars

InitProcs == ChartQuiet /\ CollectorInit /\ MonitorQuiet /\ GpuInit /\ ProcInit /\ MetricsInit /\ CacheInit /\ WorkerInit

NextProcs ==
    \/ ProcNext /\ UNCHANGED <<chartVars, collVars, monVars, gpuVars, mcVars, cacheVars, workerVars>>
    \/ TogglePause /\ UNCHANGED <<chartVars, collVars, gpuVars, procVars, mcVars, cacheVars, workerVars>>

SpecProcs == InitProcs /\ [][NextProcs]_vars

InitMetrics ==
    /\ ChartQuiet /\ CollectorInit /\ MonitorQuiet /\ GpuInit /\ ProcInit
    /\ MetricsInit /\ CacheInit /\ WorkerInit

NextMetrics ==
    MetricsNext /\ UNCHANGED <<chartVars, collVars, monVars, gpuVars, procVars, cacheVars, workerVars>>

SpecMetrics == InitMetrics /\ [][NextMetrics]_vars

InitCache ==
    /\ ChartQuiet /\ CollectorInit /\ MonitorQuiet /\ GpuInit /\ ProcInit
    /\ MetricsInit /\ CacheInit /\ WorkerInit

NextCache ==
    CacheNext /\ UNCHANGED <<chartVars, collVars, monVars, gpuVars, procVars, mcVars,
                             workerVars>>

SpecCache == InitCache /\ [][NextCache]_vars

InitWorker ==
    /\ ChartQuiet /\ CollectorInit /\ MonitorQuiet /\ GpuInit /\ ProcInit
    /\ MetricsInit /\ CacheInit /\ WorkerInit

NextWorker ==
    WorkerNext /\ UNCHANGED <<chartVars, monVars, gpuVars, procVars, mcVars, cacheVars>>

SpecWorker == InitWorker /\ [][NextWorker]_vars

CompleteStep ==
    (\E outcome \in Outcomes : OnCollectionComplete(outcome))
    /\ UNCHANGED <<chartVars, monVars, gpuVars, procVars, mcVars, cacheVars, workerVars>>

\* the executor runs every submitted worker to its end and then calls the
\* done-callback
SpecCollectorFair == SpecCollector /\ WF_vars(CompleteStep)

\* ========================================================================
\* Properties
\* ========================================================================

\* C1: the up / down / read / write rate computed on a tick is never
\* negative, whatever the counters read (a counter may go down between two
\* ticks) and whatever the elapsed time.
C1_NoNegativeRates ==
    /\ up_mbs >= 0
    /\ down_mbs >= 0
    /\ read_mbs >= 0
    /\ write_mbs >= 0

\* a completed tick on which the sent counter and the disk write counter both
\* went down while the received counter went up
C1_Witness ==
    /\ tick_reads["net"] = "ok"
    /\ tick_reads["disk"] = "ok"
    /\ last_net.bytes_sent < prev_net.bytes_sent
    /\ prev_disk # NoneDisk
    /\ last_disk.write_bytes < prev_disk.write_bytes
    /\ up_mbs = 0
    /\ down_mbs > 0

BufferValues(buf) == [k \in 1..Len(buf) |-> buf[k][2]]

LastN(seq, n) == SubSeq(seq, Len(seq) - n + 1, Len(seq))

\* C2: a series buffer never holds more than max_points points, and it holds
\* exactly the last max_points values appended to it (all of them while there
\* are fewer), in the order they were appended.
C2_BoundedBuffer ==
    \A i \in 1..NSeries :
        /\ Len(buffers[i]) <= max_points
        /\ BufferValues(buffers[i])
             = LastN(appended[i], Min(max_points, Len(appended[i])))

\* more than max_points values went into the first series; the buffer is full
\* and its oldest points are gone
C2_Witness ==
    /\ Len(appended[1]) > max_points
    /\ Len(buffers[1]) = max_points
    /\ buffers[1][1][1] > 1

\* C3: at most one worker runs at any time, and a collect_async call made
\* while a collection is in progress starts no worker.
C3_SingleWorker ==
    /\ [](running <= 1)
    /\ [][(collecting /\ coll_op' = "collect_async")
            => (submitted' = submitted /\ running' = running)]_vars

\* two calls were made before the first collection completed: one worker
C3_Witness ==
    /\ calls = 2
    /\ coll_op = "collect_async"
    /\ next_result = 1
    /\ submitted = 1
    /\ running = 1

\* C4: the mailbox holds at most one result; a pending result is always the
\* one of the latest completion, and only older results are ever discarded.
C4_SingleSlotMailbox ==
    /\ Len(result_queue) <= 1
    /\ result_queue # <<>> => result_queue[1].id = next_result - 1
    /\ \A i \in discarded : i < next_result - 1

\* the first result was never consumed; the second completion replaced it and
\* get_result returned the second
C4_Witness ==
    /\ 1 \in discarded
    /\ coll_op = "get_result"
    /\ last_get.id = 2

GetResultStep == GetResult /\ UNCHANGED <<chartVars, monVars, gpuVars, procVars, mcVars, cacheVars, workerVars>>

\* C5: get_result can always be called; it returns the pending result, or
\* None when nothing is pending, and leaves the mailbox empty, so a second
\* get_result right after it returns None.
C5_GetResult ==
    /\ [](ENABLED GetResultStep)
    /\ [][coll_op' = "get_result"
            => /\ result_queue' = <<>>
               /\ last_get' = IF result_queue = <<>> THEN NoResult
                              ELSE result_queue[1]
               /\ coll_op = "get_result" => last_get' = NoResult]_vars

\* get_result returned a pending result and emptied the mailbox
C5_Witness ==
    /\ coll_op = "get_result"
    /\ last_get.kind = "result"
    /\ result_queue = <<>>

\* C6: every collection that was started ends with the collector idle again,
\* and the collecting flag is clear once the completion callback has run,
\* also when the future raised.
C6_ReturnsToIdle ==
    /\ collecting ~> ~collecting
    /\ [][coll_op' = "on_collection_complete" => ~collecting']_vars

\* the callback ran for a future that raised, and the collector is idle
C6_Witness ==
    /\ coll_op = "on_collection_complete"
    /\ ~collecting
    /\ result_queue # <<>>
    /\ result_queue[1].kind = "error"

ShutdownStep == Shutdown /\ UNCHANGED <<chartVars, monVars, gpuVars, procVars, mcVars, cacheVars, workerVars>>

\* C7: once shut down the collector stays shut down: no later call clears
\* the flag or starts a worker, and shutdown can be called again.
C7_ShutdownIsFinal ==
    /\ [](shutdown => ENABLED ShutdownStep)
    /\ [][shutdown => /\ shutdown'
                      /\ submitted' = submitted
                      /\ running' <= running]_vars

\* collect_async was called on a collector that is shut down and idle
C7_Witness ==
    /\ shutdown
    /\ coll_op = "collect_async"
    /\ ~collecting
    /\ running = 0
    /\ submitted = 0

\* what the card(s) of a channel show
ChannelShowsZero(c) ==
    CASE c = "cpu"  -> card_cpu = 0
      [] c = "mem"  -> card_mem = 0
      [] c = "net"  -> up_mbs = 0 /\ down_mbs = 0
      [] c = "disk" -> read_mbs = 0 /\ write_mbs = 0

\* C8: when the read of one channel raises on a tick, that channel shows 0 and
\* every other channel is still read and updated on that tick.
C8_FailureIsolated ==
    \A c \in Channels :
        tick_reads[c] = "raised" =>
            /\ ChannelShowsZero(c)
            /\ \A o \in Channels \ {c} :
                   tick_reads[o] # "skipped" /\ o \in tick_updated

\* C9: a tick that fires while paused restarts the elapsed-time clock and
\* updates no metric, and the dt of every running tick is the time since the
\* tick before it (at least 1 ms), so it never reaches back over a paused tick.
C9_PausedTick ==
    /\ [][(paused /\ ticks' = ticks + 1)
            => /\ elapsed' = 0
               /\ UNCHANGED <<last_net, last_disk, net_dyn_up, net_dyn_down,
                              disk_dyn_read, disk_dyn_write, up_mbs, down_mbs,
                              read_mbs, write_mbs, dt_ms, card_cpu, card_mem,
                              gpu_refresh_accum, proc_refresh_accum>>]_vars
    /\ [](tick_reads["cpu"] # "skipped" => dt_ms = Max(1, gap_at_tick))

\* the first running tick after a paused tick, 100 ms after it
C9_Witness ==
    /\ prev_tick_paused
    /\ ~paused
    /\ tick_reads["cpu"] = "ok"
    /\ gap_at_tick = 100
    /\ dt_ms = 100

\* C10: a step that changes the divisor sets the four reference maxima to 1.0.
C10_UnitChangeResets ==
    [][bytes_per_unit' # bytes_per_unit
         => /\ net_dyn_up' = FP
            /\ net_dyn_down' = FP
            /\ disk_dyn_read' = FP
            /\ disk_dyn_write' = FP]_vars

\* the last tick computed its rates in MiB/s (10 MiB/s read) and raised the
\* read maximum above 1.0; the unit is now MB/s and the maxima are back at 1.0
C10_Witness ==
    /\ unit_mode = "MB/s"
    /\ bytes_per_unit = 1000000
    /\ read_mbs = 10000000
    /\ net_dyn_up = FP
    /\ net_dyn_down = FP
    /\ disk_dyn_read = FP
    /\ disk_dyn_write = FP

\* the tick that is being taken computes the four rates
SampleStep == ticks' = ticks + 1 /\ "net" \in tick_updated'

\* C11: right after a tick has updated the reference maxima, each maximum is
\* at least the rate observed for its channel on that tick.
C11_Envelope ==
    [][SampleStep
         => /\ net_dyn_up' >= up_mbs'
            /\ net_dyn_down' >= down_mbs'
            /\ disk_dyn_read' >= read_mbs'
            /\ disk_dyn_write' >= write_mbs']_vars

\* a tick on which the upload rate went above the old maximum of 1.0 and
\* became the maximum, while the download maximum decayed above a rate of 0
C11_Witness ==
    /\ tick_reads["net"] = "ok"
    /\ samples = 1
    /\ up_mbs > FP
    /\ net_dyn_up = up_mbs
    /\ down_mbs = 0
    /\ net_dyn_down > 0
    /\ net_dyn_down < FP

\* C12: on a tick that observes a rate of 0 the reference maximum of that
\* channel gets strictly smaller, until it is below what the fixed point can
\* hold (under 1e-6, carried as 0), and it does not grow.
C12_DecayMonotone ==
    [][SampleStep
         => /\ up_mbs' = 0 =>
                 /\ net_dyn_up' <= net_dyn_up
                 /\ net_dyn_up > 0 => net_dyn_up' < net_dyn_up
            /\ down_mbs' = 0 =>
                 /\ net_dyn_down' <= net_dyn_down
                 /\ net_dyn_down > 0 => net_dyn_down' < net_dyn_down
            /\ read_mbs' = 0 =>
                 /\ disk_dyn_read' <= disk_dyn_read
                 /\ disk_dyn_read > 0 => disk_dyn_read' < disk_dyn_read
            /\ write_mbs' = 0 =>
                 /\ disk_dyn_write' <= disk_dyn_write
                 /\ disk_dyn_write > 0 => disk_dyn_write' < disk_dyn_write]_vars

\* two ticks in a row saw the sent counter unchanged; the upload maximum is
\* below what one 1 ms decay of 1.0 leaves, and still positive
C12_Witness ==
    /\ samples = 2
    /\ tick_reads["net"] = "ok"
    /\ up_mbs = 0
    /\ prev_net.bytes_sent = last_net.bytes_sent
    /\ net_dyn_up > 0
    /\ net_dyn_up < MulFP(FP, Alpha(1))

\* C13 as stated: the stored reference maxima never fall below 1e-6.
C13_StoredFloor ==
    /\ net_dyn_up >= RefFloor
    /\ net_dyn_down >= RefFloor
    /\ disk_dyn_read >= RefFloor
    /\ disk_dyn_write >= RefFloor

StoredMax(c) ==
    CASE c = "net_up"     -> net_dyn_up
      [] c = "net_down"   -> net_dyn_down
      [] c = "disk_read"  -> disk_dyn_read
      [] c = "disk_write" -> disk_dyn_write

\* what update_value divided by: the floor, or the reference maximum it was given
DivisorUsed(c) == IF card_floored[c] THEN RefFloor ELSE StoredMax(c)

\* C13, amended: the stored reference maxima are never negative but can decay
\* below 1e-6; the divisor update_value uses on a tick is at least 1e-6.
C13_DivisorFloor ==
    /\ [](\A c \in Cards : StoredMax(c) >= 0)
    /\ [][SampleStep => \A c \in Cards : DivisorUsed(c)' >= RefFloor]_vars

\* after a late tick with no traffic the stored upload maximum is below 1e-6
\* and the card divided by the floor
C13_Witness ==
    /\ tick_reads["net"] = "ok"
    /\ up_mbs = 0
    /\ net_dyn_up < RefFloor
    /\ card_floored["net_up"]

\* C14 as stated: the first rates a tick computes are 0.
C14_FirstRateZero ==
    samples = 1 =>
        /\ up_mbs = 0
        /\ down_mbs = 0
        /\ read_mbs = 0
        /\ write_mbs = 0

\* C14, amended: the baseline of the first rates is the reading taken by the
\* constructor, so a first rate is 0 exactly when the counter has not grown
\* since construction or, for the disk, when a reading is missing.
C14_FirstRateFromInit ==
    samples = 1 =>
        /\ prev_net \in InitialNet
        /\ prev_disk \in InitialDisk
        /\ up_mbs > 0 <=> last_net.bytes_sent > prev_net.bytes_sent
        /\ down_mbs > 0 <=> last_net.bytes_recv > prev_net.bytes_recv
        /\ read_mbs > 0 <=> /\ prev_disk # NoneDisk
                            /\ last_disk # NoneDisk
                            /\ last_disk.read_bytes > prev_disk.read_bytes
        /\ write_mbs > 0 <=> /\ prev_disk # NoneDisk
                             /\ last_disk # NoneDisk
                             /\ last_disk.write_bytes > prev_disk.write_bytes

\* the first tick that computed rates found the sent counter above the
\* constructor's reading and reported a positive upload rate
C14_Witness ==
    /\ samples = 1
    /\ tick_reads["net"] = "ok"
    /\ last_net.bytes_sent > prev_net.bytes_sent
    /\ up_mbs > 0

\* C15: on a tick that reads a counter below its previous reading the rate of
\* that counter is 0; the reading of a tick always becomes the baseline, so the
\* next rate is computed from that reading.
C15_CounterReset ==
    /\ [](tick_reads["net"] = "ok" =>
            /\ seen_net.bytes_sent < prev_net.bytes_sent => up_mbs = 0
            /\ seen_net.bytes_recv < prev_net.bytes_recv => down_mbs = 0)
    /\ [](tick_reads["disk"] = "ok" /\ prev_disk # NoneDisk =>
            /\ seen_disk.read_bytes < prev_disk.read_bytes => read_mbs = 0
            /\ seen_disk.write_bytes < prev_disk.write_bytes => write_mbs = 0)
    /\ [](last_net = seen_net /\ last_disk = seen_disk)
    /\ [][SampleStep =>
            /\ up_mbs' = RateOf(seen_net'.bytes_sent, seen_net.bytes_sent,
                                dt_ms', bytes_per_unit)
            /\ down_mbs' = RateOf(seen_net'.bytes_recv, seen_net.bytes_recv,
                                  dt_ms', bytes_per_unit)]_vars

\* the received counter fell from 2000000 to 500000 on the first tick; the
\* second tick read 2000000 again and its download rate is measured from
\* 500000, while the sent counter fell on the second tick
C15_Witness ==
    /\ samples = 2
    /\ tick_reads["net"] = "ok"
    /\ prev_net.bytes_recv = 500000
    /\ last_net.bytes_recv = 2000000
    /\ down_mbs > 0
    /\ last_net.bytes_sent < prev_net.bytes_sent
    /\ up_mbs = 0

\* C16: within a tick no widget is updated before the last counter is read.
C16_ReadsBeforeUpdates ==
    \A i, j \in 1..Len(tick_trace) :
        i < j => ~(tick_trace[i].op = "update" /\ tick_trace[j].op = "read")

\* C17: a frame the main loop has read holds the utilization, the frequency
\* and the VRAM figures of one and the same poll iteration.
C17_NoTornFrame ==
    (frames > 0 /\ gpu_pc = "utils") =>
        \A a, b \in {frame.utils, frame.freq, frame.vram} \ {0} : a = b

\* the processes of the last scan
Scanned == {proc_scan.table[k] : k \in 1..Len(proc_scan.table)}

SeqToSet(seq) == {seq[k] : k \in 1..Len(seq)}

\* the pids listed under a core, or under "any core"
InCore(core, pid) == pid \in SeqToSet(core_processes[core])

InAnyCore(pid) == pid \in SeqToSet(all_cores_processes)

\* the filter of the last scan is found in the lower-cased name or in the pid
MatchesScan(p) ==
    \/ Contains(proc_scan.filter, [i \in 1..Len(p.name) |-> LowerChar(p.name[i])])
    \/ Contains(proc_scan.filter, PidStr(p.pid))

\* C18: after a scan with a non-empty filter, a process that matches neither
\* by lower-cased name nor by pid is in no bucket, a process that matches by
\* name or by pid has passed the filter, and only such processes are listed.
C18_Filter ==
    proc_scan.filter # <<>> =>
        /\ \A p \in Scanned :
              IF MatchesScan(p)
              THEN p.pid \in proc_passed
              ELSE /\ p.pid \notin proc_passed
                   /\ ~InAnyCore(p.pid)
                   /\ \A c \in DOMAIN core_processes : ~InCore(c, p.pid)
        /\ SeqToSet(all_cores_processes) \subseteq proc_passed
        /\ \A c \in DOMAIN core_processes :
              SeqToSet(core_processes[c]) \subseteq proc_passed

\* the filter "1" was typed with blanks around it: the nameless process 3 is
\* dropped, and process 12 ("ba") is kept for its pid
C18_Witness ==
    /\ proc_scan.filter = <<"1">>
    /\ proc_scan.n_cores = 2
    /\ Len(proc_scan.table) = 2
    /\ proc_scan.table[1].pid = 3
    /\ proc_scan.table[2].pid = 12
    /\ proc_passed = {12}
    /\ all_cores_processes = <<12>>

\* C19: a scanned process that passed the filter and whose affinity is a
\* non-empty strict subset of the cores is listed under exactly the cores of
\* its affinity and not under "any core"; one whose affinity covers all
\* cores, is empty or cannot be read is listed under "any core" only.
C19_Affinity ==
    \A p \in Scanned :
        p.pid \in proc_passed =>
            LET cores == 0..(proc_scan.n_cores - 1)
                cs    == SeqToSet(p.aff.cores)
            IN  /\ (p.aff.ok /\ cs # {} /\ cs \subseteq cores /\ cs # cores)
                     => /\ \A c \in cores : InCore(c, p.pid) <=> c \in cs
                        /\ ~InAnyCore(p.pid)
                /\ (~p.aff.ok \/ cs = {} \/ cores \subseteq cs)
                     => /\ InAnyCore(p.pid)
                        /\ \A c \in cores : ~InCore(c, p.pid)

\* two cores: pid 1 is pinned to core 0 and listed there only; pid 12 may run
\* on both cores and is listed under "any core"
C19_Witness ==
    /\ proc_scan.n_cores = 2
    /\ Len(proc_scan.table) = 2
    /\ proc_scan.table[1].pid = 1
    /\ proc_scan.table[2].pid = 12
    /\ core_processes[0] = <<1>>
    /\ core_processes[1] = <<>>
    /\ all_cores_processes = <<12>>

C23_TotalsCountAll ==
    /\ proc_count = Len(proc_scan.table)
    /\ total_threads = SumThreads(proc_scan.table)

\* a scan of two processes (6 threads) under the filter "z", which keeps none
C23_Witness ==
    /\ proc_scan.filter = <<"z">>
    /\ Len(proc_scan.table) = 2
    /\ proc_scan.table[1].pid = 1
    /\ proc_scan.table[2].pid = 12
    /\ proc_passed = {}
    /\ proc_count = 2
    /\ total_threads = 6

\* C29: every scanned process that passed the filter is listed under some
\* core or under "any core".
C29_EveryKeptProcessListed ==
    \A p \in Scanned :
        p.pid \in proc_passed =>
            \/ InAnyCore(p.pid)
            \/ \E c \in DOMAIN core_processes : InCore(c, p.pid)

UnitChangeStep(mode) ==
    OnUnitChanged(mode) /\ UNCHANGED <<chartVars, collVars, gpuVars, procVars, mcVars, cacheVars, workerVars>>

\* what on_unit_changed writes
UnitState ==
    <<unit_mode, bytes_per_unit, card_unit, net_dyn_up, net_dyn_down,
      disk_dyn_read, disk_dyn_write>>

\* C30: in every state on_unit_changed can be called with a mode that is not
\* in the mapping, and such a call leaves unit_mode, the divisor, the card
\* units and the four reference maxima as they are.
C30_UnknownModeIgnored ==
    \A mode \in UnitTexts \ DOMAIN UnitMapping :
        /\ ENABLED UnitChangeStep(mode)
        /\ ~ENABLED (UnitChangeStep(mode) /\ UnitState' # UnitState)

\* the unit is MB/s and a tick has raised the upload maximum above 1.0: a
\* call with "KB/s" can be made here and would be told from a reset
C30_Witness ==
    /\ unit_mode = "MB/s"
    /\ bytes_per_unit = 1000000
    /\ net_dyn_up > FP
    /\ card_unit["net_up"] = "MB/s"
    /\ ENABLED UnitChangeStep("KB/s")

\* C25: after every tick that ran unpaused, the elapsed time it used is at
\* least 1 ms, whatever the clock read (zero and negative readings included),
\* so the rates of that tick were divided by a positive duration.
C25_DtAtLeastOneMs ==
    tick_reads["cpu"] # "skipped" => dt_ms >= 1

\* a running tick that found the clock reading below zero, and one that found
\* it at zero, both of which completed their rate computations
C25_Witness ==
    /\ tick_reads["disk"] # "skipped"
    /\ gap_at_tick < 0
    /\ dt_ms = 1
    /\ up_mbs > 0

\* the event from which the next dt is measured (the construction, or the
\* last on_timer call, which restarted the clock) also stored the reading
\* that the next delta of this channel is taken from
BaselineAtClockStart(ch) == ticks = 0 \/ tick_reads[ch] = "ok"

\* an on_timer call that ran unpaused
RunningTickStep == ticks' = ticks + 1 /\ ~paused

\* C27: on every unpaused tick that computes a network or a disk rate, the
\* previous counter reading of that channel was taken at the event from which
\* dt is measured, so the delta and dt cover the same interval.
C27_DeltaAndDtSameInterval ==
    [][RunningTickStep =>
         /\ (tick_reads'["net"] = "ok" => BaselineAtClockStart("net"))
         /\ ((tick_reads'["disk"] = "ok" /\ last_disk # NoneDisk)
                => BaselineAtClockStart("disk"))]_vars

\* the disk cards of this on_timer call were given 0
DiskRatesZero == read_mbs' = 0 /\ write_mbs' = 0

\* C28: a tick whose disk read fails or returns nothing clears the stored
\* baseline and shows disk rates of 0, the next tick with a successful read
\* shows 0 too, and every non-zero disk rate is computed against the reading
\* of the tick just before it (the construction standing for tick zero).
C28_DiskBaselineCleared ==
    [][RunningTickStep =>
         /\ (tick_reads'["disk"] \in {"raised", "none"}
               => last_disk' = NoneDisk /\ DiskRatesZero)
         /\ ((tick_reads'["disk"] = "ok" /\ seen_disk = NoneDisk) => DiskRatesZero)
         /\ ((tick_reads'["disk"] = "ok" /\ ~DiskRatesZero)
                => BaselineAtClockStart("disk"))]_vars

\* the point indices of a buffer are strictly increasing in buffer order
IndicesIncreasing(buf) ==
    \A k \in 1..(Len(buf) - 1) : buf[k][1] < buf[k + 1][1]

\* the x range shown contains the index of every point of the buffer
InsideRange(buf) ==
    \A k \in 1..Len(buf) : axis_x[1] <= buf[k][1] /\ buf[k][1] <= axis_x[2]

\* C26: after every append the point indices of each series buffer are
\* strictly increasing, and the x range set by that append is
\* [max(0, x - max_points), max(0, x - max_points) + max_points], of width
\* max_points, and contains the index of every point still in a buffer.
C26_IndicesAndRange ==
    chart_x > 0 =>
        /\ axis_x[1] = Max(0, chart_x - max_points)
        /\ axis_x[2] = axis_x[1] + max_points
        /\ \A i \in 1..NSeries :
              IndicesIncreasing(buffers[i]) /\ InsideRange(buffers[i])

\* one accumulator over a tick: dt was added, the refresh ran exactly when
\* the sum reached the interval and then the accumulator is 0, otherwise it
\* keeps the sum; either way it ends in [0, interval)
AccumulatorRule(acc, accAfter, refreshed, dt, interval) ==
    /\ refreshed <=> acc + dt >= interval
    /\ refreshed => accAfter = 0
    /\ ~refreshed => accAfter = acc + dt
    /\ 0 <= accAfter /\ accAfter < interval

\* C24: every unpaused tick adds dt to the GPU and to the process
\* accumulator, refreshes exactly when the sum has reached the configured
\* interval and then resets the accumulator to 0, and leaves the accumulator
\* in [0, interval).
C24_RefreshAccumulators ==
    [][RunningTickStep =>
         /\ AccumulatorRule(gpu_refresh_accum, gpu_refresh_accum', gpu_refreshed',
                            dt_ms', spin_gpu_refresh)
         /\ AccumulatorRule(proc_refresh_accum, proc_refresh_accum', proc_refreshed',
                            dt_ms', spin_proc_refresh)]_vars

C22_WorkerNeverRaises ==
    worker_runs > 0 =>
        /\ ~worker_escaped
        /\ worker_raised => worker_result.error /\ worker_result.proc_count = 0
        /\ worker_stopped =>
              /\ ~worker_enumerated
              /\ ~worker_result.error
              /\ worker_result.proc_count = 0
              /\ worker_result.total_threads = 0
              /\ worker_result.all_cores_processes = <<>>

\* a run whose enumeration raised, before any shutdown
C22_Witness ==
    /\ worker_runs = 1
    /\ worker_enumerated
    /\ worker_raised
    /\ ~shutdown
    /\ worker_result.error
    /\ worker_result.proc_count = 0

====
